---- MODULE Spec2Model ----
(***************************************************************************)
(* HealthMonitorService of the ClawOps plugin (services/health-monitor):   *)
(* the scheduler (start / stop / interval timer), the sweep (fetch,        *)
(* evaluate five rules, dispatch, record) and the suppression ledger.      *)
(*                                                                         *)
(* One action is one run-to-completion turn of the JavaScript event loop:  *)
(* a call of start() or stop(), a timer callback, or the continuation of   *)
(* a sweep after one of its awaits (the fetch, a delivery) settles.  The   *)
(* code between two awaits is atomic.                                      *)
(***************************************************************************)
EXTENDS Integers, Sequences, FiniteSets, TLC

\* ------------------------------------------------------------------ bounds

\* Number of clock steps the clock may advance under SpecSeq.
MaxClockSteps == 4
\* Number of clock steps the clock may advance under Spec.
MaxSchedClockSteps == 1
\* Number of sweeps begun over a behaviour.
MaxSweeps == 4
\* Number of sweeps in flight at once under Spec.
MaxInFlight == 2
\* Number of clock steps the clock may advance under SpecFaults and SpecLive.
MaxFaultClockSteps == 1
\* Number of clock steps the clock may advance under SpecRules.
MaxRuleClockSteps == 1
\* Number of clock steps the clock may advance under SpecOverlap.
MaxOverlapClockSteps == 3

\* --------------------------------------------------------- program constants

\* this.config.healthPollIntervalMs ?? 300_000
DefaultIntervalMs == 300000
MsPerMinute == 60000

\* DEFAULT_THRESHOLDS
instanceDegradedScore == 50
costAnomalyPct == 15
provisionQueueDepth == 20
providerDegradedScore == 75
degradedSuppressionMins == 30

DEFAULT_THRESHOLDS ==
  [instanceDegradedScore |-> instanceDegradedScore,
   costAnomalyPct |-> costAnomalyPct,
   provisionQueueDepth |-> provisionQueueDepth,
   providerDegradedScore |-> providerDegradedScore,
   degradedSuppressionMins |-> degradedSuppressionMins]

\* checkProviderHealth: const suppressionMs = 60 * 60_000
ProviderSuppressionMins == 60

\* priority cut-offs of the rules
DegradedHighAbove == 10
CostHighAbove == 25
QueueHighAbove == 50
ProviderCriticalBelow == 50

\* gf_config_push: batch_size: p.batchSize ?? 50
DefaultBatchSize == 50
\* gf_config_push header: pushes to > 100 instances need approval
ApprovalAbove == 100
\* gf_bulk_restart: if (p.instanceIds.length > 200)
MaxRestartInstances == 200
\* gf_bulk_restart: Math.min(p.concurrency ?? 20, 50)
DefaultConcurrency == 20
MaxConcurrency == 50
\* gf_bulk_restart: post_restart_wait_secs: p.postRestartWaitSecs ?? 90
DefaultRestartWaitSecs == 90

\* The clock is observed at multiples of three poll intervals (15 minutes).
ClockStepMs == 3 * DefaultIntervalMs

\* Map.get of an absent key, an unset optional field.
Undefined == -1

\* ------------------------------------------------------------------- inputs

Providers == {"hetzner", "vultr"}
\* Object.entries(fleet.byProvider) visits the keys in this order.
ProviderOrder == <<"hetzner", "vultr">>

\* A string that is unset or empty is falsy.
NoSession == ""

\* ClawOpsConfig: the three optional session ids.
Configs ==
  { [guardianSessionId |-> g, ledgerSessionId |-> l, commanderSessionId |-> c] :
      g \in {NoSession, "sess-guardian"},
      l \in {NoSession},
      c \in {NoSession, "sess-commander"} }

\* The configurations of the sequential specification.
SeqConfigs ==
  { c \in Configs : (c.guardianSessionId = NoSession) = (c.commanderSessionId = NoSession) }

\* FleetStatusResult, the fields the monitor reads.  response.data is not
\* validated against the type: absent is the set of top-level fields that the
\* response lacks (their value below is then never read).
MkSnapshot(d, f, b, dev, prov) ==
  [degradedInstances |-> d, failedInstances |-> f, bootstrappingInstances |-> b,
   cost |-> [deviationPct |-> dev], byProvider |-> prov, absent |-> {}]

\* A response that lacks the given top-level fields.
Lacking(fleet, fields) == [fleet EXCEPT !.absent = fields]

\* Snapshots of the rule-level specification (sequential sweeps).
Snapshots ==
  { MkSnapshot(d, f, 0, 0, prov) :
      d \in {0, 3}, f \in {0, 3},
      prov \in { [p \in {"hetzner"} |-> s] : s \in {60, 80} } }

\* Snapshots of the scheduler-level specification (overlapping sweeps).
SchedSnapshots ==
  { MkSnapshot(d, 0, 0, 0, [p \in {"hetzner"} |-> 80]) : d \in {0, 3} }

\* A fleet with one provider listed at the given score.
Hetzner(score) == [p \in {"hetzner"} |-> score]

\* Snapshots of the fault-handling specification: a healthy fleet, one that
\* makes three rules produce an event (for guardian, forge and commander),
\* and the same response without its cost field.
FaultSnapshots ==
  { MkSnapshot(0, 0, 0, 0, Hetzner(80)),
    MkSnapshot(3, 0, 20, 0, Hetzner(60)),
    Lacking(MkSnapshot(3, 0, 20, 0, Hetzner(60)), {"cost"}) }

\* The configuration with no session id set.
RuleConfigs ==
  { c \in Configs : c.guardianSessionId = NoSession /\ c.commanderSessionId = NoSession }

\* Snapshots of the per-rule specification: each rule's input varies around
\* its thresholds while the other rules' inputs are quiet.
RuleSnapshots ==
  { MkSnapshot(d, f, 0, 0, Hetzner(80)) : d \in {0, 10, 11}, f \in {0, 2} }
  \cup { MkSnapshot(0, 0, 0, dev, Hetzner(80)) :
            dev \in {-26, -15, -14, 15, 25, 26} }
  \cup { MkSnapshot(0, 0, b, 0, Hetzner(80)) : b \in {19, 20, 50, 51} }
  \cup { MkSnapshot(0, 0, 0, 0, [p \in Providers |-> IF p = "hetzner" THEN h ELSE v]) :
            h \in {49, 50, 75}, v \in {74, 80} }

\* The configurations in which guardian and commander have a session, so
\* that a sweep awaits the delivery of what the two suppressed rules produce.
OverlapConfigs ==
  { c \in Configs : c.guardianSessionId # NoSession /\ c.commanderSessionId # NoSession }

\* Snapshots of the overlap specification: both suppressed conditions
\* breached (degraded instances, a provider below the floor), the provider
\* back above the floor, and a healthy fleet.
OverlapSnapshots ==
  { MkSnapshot(3, 0, 0, 0, Hetzner(60)),
    MkSnapshot(3, 0, 0, 0, Hetzner(80)),
    MkSnapshot(0, 0, 0, 0, Hetzner(80)) }

\* Snapshots of the dispatch specification: every rule has something to
\* report (two providers below the floor), and the same with no degraded and
\* no failed instance, with the providers at or above the floor or below it.
DispatchSnapshots ==
  { MkSnapshot(3, 2, 20, 26, [p \in Providers |-> 60]),
    MkSnapshot(0, 0, 20, 26, Hetzner(80)),
    MkSnapshot(0, 0, 20, 26, [p \in Providers |-> 60]) }

\* ------------------------------------------------------------------- state

VARIABLES
  config,               \* this.config (session ids), fixed at construction
  thresholds,           \* this.thresholds, fixed at construction
  running,              \* this.running
  pollTimer,            \* this.pollTimer: 0 is null, otherwise a timer id
  timers,               \* the interval timers that are armed (not cleared)
  suppressedInstances,  \* this.suppressedInstances: key -> expiry (ms)
  suppressedProviders,  \* this.suppressedProviders: provider -> expiry (ms)
  lastKnownState,       \* this.lastKnownState: <<>> is null, else <<snapshot>>
  now,                  \* Date.now()
  sweeps,               \* the runSweep() executions in flight, oldest first
  sweepsBegun,          \* history: number of runSweep() calls so far
  timersArmed,          \* history: number of setInterval calls so far
  lastCall,             \* history: <<"start" or "stop", this.running at the call>>
  lastSweep,            \* history: <<>> or <<the last evaluated sweep>>
  hist,                 \* history: what the sweeps evaluated so far have shown
  delivery,             \* history: <<>> or <<the log of the dispatch loop
                        \*   that ran last>>
  toolCall              \* history: <<>> or <<the last call of a tool's
                        \*   execute: its parameters and what it did>>

vars == <<config, thresholds, running, pollTimer, timers, suppressedInstances,
          suppressedProviders, lastKnownState, now, sweeps, sweepsBegun,
          timersArmed, lastCall, lastSweep, hist, delivery, toolCall>>

\* ------------------------------------------------------------ Map helpers

EmptyMap == [k \in {} |-> Undefined]
MapGet(m, k) == IF k \in DOMAIN m THEN m[k] ELSE Undefined
MapSet(m, k, v) == [x \in (DOMAIN m) \cup {k} |-> IF x = k THEN v ELSE m[x]]
MapDelete(m, k) == [x \in (DOMAIN m) \ {k} |-> m[x]]

\* ------------------------------------------------------------------ rules

FleetDegradedKey == "fleet-degraded"

\* const suppressionMs = this.thresholds.degradedSuppressionMins * 60_000
suppressionMs(th) == th.degradedSuppressionMins * MsPerMinute
\* The window of a monitor constructed with the default thresholds.
InstanceSuppressionMs == degradedSuppressionMins * MsPerMinute
\* Mutant of ProviderSuppressionMs: the window of the instance rule is used.
ProviderSuppressionMsFromThreshold == degradedSuppressionMins * MsPerMinute

\* const suppressionMs = 60 * 60_000
ProviderSuppressionMs == ProviderSuppressionMins * MsPerMinute

\* if (!suppressedUntil || now > suppressedUntil)
MayEmit(suppressedUntil, t) == suppressedUntil = Undefined \/ t > suppressedUntil

\* Mutant of DegradedEvent: ten degraded instances are already high.
DegradedEventHighFrom(th, fleet, t) ==
  [eventId |-> <<t, "degraded">>,
   type |-> "INSTANCE_DEGRADED",
   priority |-> IF fleet.degradedInstances >= DegradedHighAbove THEN "high" ELSE "medium",
   timestamp |-> t,
   targetAgent |-> "guardian",
   payload |-> [degradedCount |-> fleet.degradedInstances,
                failedCount |-> fleet.failedInstances],
   suppressUntil |-> t + suppressionMs(th)]

DegradedEvent(th, fleet, t) ==
  [eventId |-> <<t, "degraded">>,
   type |-> "INSTANCE_DEGRADED",
   priority |-> IF fleet.degradedInstances > DegradedHighAbove THEN "high" ELSE "medium",
   timestamp |-> t,
   targetAgent |-> "guardian",
   payload |-> [degradedCount |-> fleet.degradedInstances,
                failedCount |-> fleet.failedInstances],
   suppressUntil |-> t + suppressionMs(th)]

FailedEvent(fleet, t) ==
  [eventId |-> <<t, "failed">>,
   type |-> "PAIR_FAILED",
   priority |-> "critical",
   timestamp |-> t,
   targetAgent |-> "guardian",
   payload |-> [failedCount |-> fleet.failedInstances],
   suppressUntil |-> Undefined]

\* Mutant of CheckDegraded: the score threshold is read; the event is
\* produced only when a provider's score is below it.
CheckDegradedBelowScore(th, fleet, t, ledger) ==
  IF /\ fleet.degradedInstances > 0
     /\ \E p \in DOMAIN fleet.byProvider :
          fleet.byProvider[p] < th.instanceDegradedScore
     /\ MayEmit(MapGet(ledger, FleetDegradedKey), t)
  THEN [events |-> <<DegradedEvent(th, fleet, t)>>,
        ledger |-> MapSet(ledger, FleetDegradedKey, t + suppressionMs(th))]
  ELSE [events |-> <<>>, ledger |-> ledger]

\* Mutant of CheckDegraded: the expiry is never stored.
CheckDegradedNoSet(th, fleet, t, ledger) ==
  IF fleet.degradedInstances > 0 /\ MayEmit(MapGet(ledger, FleetDegradedKey), t)
  THEN [events |-> <<DegradedEvent(th, fleet, t)>>, ledger |-> ledger]
  ELSE [events |-> <<>>, ledger |-> ledger]

\* The degraded half of checkInstanceHealth: <<events, suppressedInstances>>.
CheckDegraded(th, fleet, t, ledger) ==
  IF fleet.degradedInstances > 0 /\ MayEmit(MapGet(ledger, FleetDegradedKey), t)
  THEN [events |-> <<DegradedEvent(th, fleet, t)>>,
        ledger |-> MapSet(ledger, FleetDegradedKey, t + suppressionMs(th))]
  ELSE [events |-> <<>>, ledger |-> ledger]

\* Mutant of CheckFailed: the count is not compared with zero strictly.
CheckFailedFromZero(fleet, t) ==
  IF fleet.failedInstances >= 0 THEN <<FailedEvent(fleet, t)>> ELSE <<>>

\* The failed half of checkInstanceHealth: no suppression.
CheckFailed(fleet, t) ==
  IF fleet.failedInstances > 0 THEN <<FailedEvent(fleet, t)>> ELSE <<>>

\* Mutant of checkInstanceHealth: PAIR_FAILED sits inside the suppression test.
checkInstanceHealthSuppressAll(th, fleet, t, ledger) ==
  LET d == CheckDegraded(th, fleet, t, ledger)
  IN  [events |-> IF MayEmit(MapGet(ledger, FleetDegradedKey), t)
                  THEN d.events \o CheckFailed(fleet, t) ELSE d.events,
       ledger |-> d.ledger]

\* Mutant of checkInstanceHealth: PAIR_FAILED is pushed first.
checkInstanceHealthFailedFirst(th, fleet, t, ledger) ==
  LET d == CheckDegraded(th, fleet, t, ledger)
  IN  [events |-> CheckFailed(fleet, t) \o d.events, ledger |-> d.ledger]

checkInstanceHealth(th, fleet, t, ledger) ==
  LET d == CheckDegraded(th, fleet, t, ledger)
  IN  [events |-> d.events \o CheckFailed(fleet, t), ledger |-> d.ledger]

Abs(x) == IF x < 0 THEN -x ELSE x

\* Mutant of CostEvent: the cost event is addressed to commander.
CostEventToCommander(dev, t) ==
  [eventId |-> <<t, "cost">>,
   type |-> "COST_ANOMALY",
   priority |-> IF dev > CostHighAbove \/ 0 - dev > CostHighAbove
                THEN "high" ELSE "medium",
   timestamp |-> t,
   targetAgent |-> "commander",
   payload |-> [deviationPct |-> dev,
                direction |-> IF dev > 0 THEN "over" ELSE "under"],
   suppressUntil |-> Undefined]

CostEvent(dev, t) ==
  [eventId |-> <<t, "cost">>,
   type |-> "COST_ANOMALY",
   priority |-> IF Abs(dev) > CostHighAbove THEN "high" ELSE "medium",
   timestamp |-> t,
   targetAgent |-> "ledger",
   payload |-> [deviationPct |-> dev,
                direction |-> IF dev > 0 THEN "over" ELSE "under"],
   suppressUntil |-> Undefined]

\* Mutant of checkCostAnomaly: the deviation is compared without Math.abs.
checkCostAnomalySigned(th, fleet, t) ==
  IF fleet.cost.deviationPct >= th.costAnomalyPct
  THEN <<CostEvent(fleet.cost.deviationPct, t)>> ELSE <<>>

checkCostAnomaly(th, fleet, t) ==
  LET dev == fleet.cost.deviationPct
  IN  IF Abs(dev) >= th.costAnomalyPct
      THEN <<CostEvent(dev, t)>>
      ELSE <<>>

QueueEvent(queueDepth, t) ==
  [eventId |-> <<t, "queue">>,
   type |-> "PROVISION_QUEUE_BACKLOG",
   priority |-> IF queueDepth > QueueHighAbove THEN "high" ELSE "medium",
   timestamp |-> t,
   targetAgent |-> "forge",
   payload |-> [queueDepth |-> queueDepth],
   suppressUntil |-> Undefined]

\* Mutant of checkProvisionQueue: the depth must exceed the ceiling.
checkProvisionQueueAbove(th, fleet, t) ==
  IF fleet.bootstrappingInstances > th.provisionQueueDepth
  THEN <<QueueEvent(fleet.bootstrappingInstances, t)>> ELSE <<>>

checkProvisionQueue(th, fleet, t) ==
  LET queueDepth == fleet.bootstrappingInstances
  IN  IF queueDepth >= th.provisionQueueDepth
      THEN <<QueueEvent(queueDepth, t)>>
      ELSE <<>>

ProviderEvent(provider, healthScore, t) ==
  [eventId |-> <<t, "provider", provider>>,
   type |-> "PROVIDER_DEGRADED",
   priority |-> IF healthScore < ProviderCriticalBelow THEN "critical" ELSE "high",
   timestamp |-> t,
   targetAgent |-> "commander",
   payload |-> [provider |-> provider, healthScore |-> healthScore],
   suppressUntil |-> t + ProviderSuppressionMs]

\* Mutant of CheckProvider: a recovered provider keeps its entry.
CheckProviderKeepsEntry(th, provider, healthScore, t, acc) ==
  IF healthScore < th.providerDegradedScore
     /\ MayEmit(MapGet(acc.ledger, provider), t)
  THEN [events |-> Append(acc.events, ProviderEvent(provider, healthScore, t)),
        ledger |-> MapSet(acc.ledger, provider, t + ProviderSuppressionMs)]
  ELSE acc

\* One iteration of the loop of checkProviderHealth, on one provider.
CheckProvider(th, provider, healthScore, t, acc) ==
  IF healthScore < th.providerDegradedScore
  THEN IF MayEmit(MapGet(acc.ledger, provider), t)
       THEN [events |-> Append(acc.events, ProviderEvent(provider, healthScore, t)),
             ledger |-> MapSet(acc.ledger, provider, t + ProviderSuppressionMs)]
       ELSE acc
  ELSE [events |-> acc.events, ledger |-> MapDelete(acc.ledger, provider)]

RECURSIVE ProviderLoop(_, _, _, _, _)
ProviderLoop(th, i, fleet, t, acc) ==
  IF i > Len(ProviderOrder) THEN acc
  ELSE LET p == ProviderOrder[i]
       IN  IF p \in DOMAIN fleet.byProvider
           THEN ProviderLoop(th, i + 1, fleet, t,
                             CheckProvider(th, p, fleet.byProvider[p], t, acc))
           ELSE ProviderLoop(th, i + 1, fleet, t, acc)

\* Mutant of checkProviderHealth: the entries of the providers that the
\* snapshot does not list are dropped.
checkProviderHealthClearsUnlisted(th, fleet, t, ledger) ==
  ProviderLoop(th, 1, fleet, t,
               [events |-> <<>>,
                ledger |-> [p \in (DOMAIN ledger) \cap (DOMAIN fleet.byProvider)
                              |-> ledger[p]]])

\* Mutant of checkProviderHealth: the expiries are not stored.
checkProviderHealthNoLedger(th, fleet, t, ledger) ==
  [events |-> ProviderLoop(th, 1, fleet, t, [events |-> <<>>, ledger |-> ledger]).events,
   ledger |-> ledger]

checkProviderHealth(th, fleet, t, ledger) ==
  ProviderLoop(th, 1, fleet, t, [events |-> <<>>, ledger |-> ledger])

\* Mutant of RecoveryEdge: the previous snapshot's counts are not looked at.
RecoveryEdgeAnyPrevious(fleet, last) ==
  /\ last # <<>>
  /\ fleet.failedInstances = 0
  /\ fleet.degradedInstances = 0

\* Mutant of RecoveryEdge: the counts of the current snapshot are not looked at.
RecoveryEdgeAnyCurrent(fleet, last) ==
  /\ last # <<>>
  /\ (last[1].failedInstances > 0 \/ last[1].degradedInstances > 0)

\* The condition of checkFleetRecovery; last is this.lastKnownState.
RecoveryEdge(fleet, last) ==
  /\ last # <<>>
  /\ (last[1].failedInstances > 0 \/ last[1].degradedInstances > 0)
  /\ fleet.failedInstances = 0
  /\ fleet.degradedInstances = 0

checkFleetRecovery(fleet, t, last) ==
  IF RecoveryEdge(fleet, last)
  THEN << [eventId |-> <<t, "recovery">>,
           type |-> "FLEET_RECOVERING",
           priority |-> "low",
           timestamp |-> t,
           targetAgent |-> "commander",
           payload |-> [previousFailed |-> last[1].failedInstances,
                        previousDegraded |-> last[1].degradedInstances],
           suppressUntil |-> Undefined] >>
  ELSE <<>>

\* fleet.alerts.filter(...) on a response without alerts: a TypeError, raised
\* after the degraded half of checkInstanceHealth has run.
InstanceHealthThrows(fleet) ==
  fleet.failedInstances > 0 /\ "alerts" \in fleet.absent

\* const { ..., deviationPct } = fleet.cost on a response without cost.
CostAnomalyThrows(fleet) == "cost" \in fleet.absent

\* Object.entries(fleet.byProvider) on a response without byProvider.
ProviderHealthThrows(fleet) == "byProvider" \in fleet.absent

NoThrow == "none"

\* runSweep between the fetch and the dispatch loop: the five checks in order,
\* none of them inside a try.  threw names the check that raised (the later
\* checks are then not reached); events is what runSweep's array holds, and the
\* ledgers are as the checks that ran left them.
Evaluate(th, fleet, t, instLedger, provLedger, last) ==
  LET inst == checkInstanceHealth(th, fleet, t, instLedger)
      prov == checkProviderHealth(th, fleet, t, provLedger)
      upToQueue == inst.events \o checkCostAnomaly(th, fleet, t)
                     \o checkProvisionQueue(th, fleet, t)
  IN  IF InstanceHealthThrows(fleet)
      THEN [events |-> <<>>, threw |-> "checkInstanceHealth",
            suppressedInstances |-> inst.ledger,
            suppressedProviders |-> provLedger]
      ELSE IF CostAnomalyThrows(fleet)
      THEN [events |-> inst.events, threw |-> "checkCostAnomaly",
            suppressedInstances |-> inst.ledger,
            suppressedProviders |-> provLedger]
      ELSE IF ProviderHealthThrows(fleet)
      THEN [events |-> upToQueue, threw |-> "checkProviderHealth",
            suppressedInstances |-> inst.ledger,
            suppressedProviders |-> provLedger]
      ELSE [events |-> upToQueue \o prov.events
                         \o checkFleetRecovery(fleet, t, last),
            threw |-> NoThrow,
            suppressedInstances |-> inst.ledger,
            suppressedProviders |-> prov.ledger]

\* ----------------------------------------------------------------- history
\* What an observer of the produced events and of the fetched snapshots
\* knows; none of it is read by the monitor.

HasType(events, ty) == \E i \in 1..Len(events) : events[i].type = ty
CountType(events, ty) == Cardinality({i \in 1..Len(events) : events[i].type = ty})
ProviderEvents(events, p) ==
  {i \in 1..Len(events) : events[i].type = "PROVIDER_DEGRADED"
                            /\ events[i].payload.provider = p}

Unhealthy(fleet) == fleet.failedInstances > 0 \/ fleet.degradedInstances > 0
Listed(fleet, p) == p \in DOMAIN fleet.byProvider

InitHist ==
  [degradedBreachAt |-> Undefined,
   degradedPhase |-> "none",
   providerBreachAt |-> [p \in Providers |-> Undefined],
   providerEmits |-> [p \in Providers |-> 0],
   sinceRecovery |-> "none",
   costRun |-> 0,
   queueRun |-> 0,
   providerUnlisted |-> [p \in Providers |-> FALSE]]

\* Length, up to two, of a run of consecutive sweeps that produced type ty.
RunAfter(run, events, ty) ==
  IF ~HasType(events, ty) THEN 0 ELSE IF run < 2 THEN run + 1 ELSE run

\* degradedPhase follows a run of consecutive sweeps with degraded instances:
\* "emitted" by the INSTANCE_DEGRADED that opens it, "suppressed" by a later
\* sweep of the run that produces none, "re-emitted" by one after that which
\* produces a new one; a sweep with no degraded instance ends the run.
PhaseAfter(phase, fleet, deg) ==
  IF fleet.degradedInstances = 0 THEN "none"
  ELSE IF deg THEN (IF phase \in {"suppressed", "re-emitted"} THEN "re-emitted"
                    ELSE "emitted")
  ELSE IF phase = "emitted" THEN "suppressed"
  ELSE phase

\* The history after a sweep that evaluated snapshot fleet at time t and
\* produced events, from the history h before it.
\*   degradedBreachAt: time of the last INSTANCE_DEGRADED, forgotten by a
\*     sweep with no degraded instance
\*   providerBreachAt[p]: time of the last PROVIDER_DEGRADED of p, forgotten
\*     by a sweep that lists p at or above the floor
\*   providerEmits[p]: number of PROVIDER_DEGRADED of p so far, up to two
\*   sinceRecovery: "none" before the first FLEET_RECOVERING; after it,
\*     "healthy" until a sweep sees failed or degraded instances, "unhealthy"
\*     from then to the next FLEET_RECOVERING
\*   costRun, queueRun: the number, up to two, of consecutive sweeps up to
\*     this one that produced COST_ANOMALY, PROVISION_QUEUE_BACKLOG
\*   providerUnlisted[p]: a sweep since the last PROVIDER_DEGRADED of p had a
\*     snapshot that does not list p, and none since has listed p at or above
\*     the floor
HistAfter(h, fleet, t, events) ==
  LET deg == HasType(events, "INSTANCE_DEGRADED")
  IN  [degradedBreachAt |-> IF deg THEN t
                            ELSE IF fleet.degradedInstances = 0 THEN Undefined
                            ELSE h.degradedBreachAt,
       degradedPhase |-> PhaseAfter(h.degradedPhase, fleet, deg),
       providerBreachAt |->
         [p \in Providers |->
            IF ProviderEvents(events, p) # {} THEN t
            ELSE IF Listed(fleet, p) /\ fleet.byProvider[p] >= providerDegradedScore
                 THEN Undefined
            ELSE h.providerBreachAt[p]],
       providerEmits |->
         [p \in Providers |->
            IF ProviderEvents(events, p) # {} /\ h.providerEmits[p] < 2
            THEN h.providerEmits[p] + 1 ELSE h.providerEmits[p]],
       sinceRecovery |->
         IF HasType(events, "FLEET_RECOVERING") THEN "healthy"
         ELSE IF Unhealthy(fleet) /\ h.sinceRecovery # "none" THEN "unhealthy"
         ELSE h.sinceRecovery,
       costRun |-> RunAfter(h.costRun, events, "COST_ANOMALY"),
       queueRun |-> RunAfter(h.queueRun, events, "PROVISION_QUEUE_BACKLOG"),
       providerUnlisted |->
         [p \in Providers |->
            IF ProviderEvents(events, p) # {} THEN FALSE
            ELSE IF ~Listed(fleet, p) THEN h.providerBreachAt[p] # Undefined
            ELSE IF fleet.byProvider[p] >= providerDegradedScore THEN FALSE
            ELSE h.providerUnlisted[p]]]

\* ------------------------------------------------------------- dispatching

\* getSessionId
getSessionId(agent) ==
  CASE agent = "guardian" -> config.guardianSessionId
    [] agent = "ledger" -> config.ledgerSessionId
    [] agent = "commander" -> config.commanderSessionId
    [] agent = "forge" -> NoSession

\* Mutant of Awaits: every event is posted, whatever its target.
AwaitsAlways(event) == TRUE

\* emitEvent returns at once when the target has no session id;
\* otherwise it awaits axios.post.
Awaits(event) == getSessionId(event.targetAgent) # NoSession

\* The dispatch loop of runSweep from event k on, up to its next await:
\* the index of the first event whose delivery is awaited, or Len + 1.
RECURSIVE NextAwait(_, _)
NextAwait(events, k) ==
  IF k > Len(events) THEN k
  ELSE IF Awaits(events[k]) THEN k
  ELSE NextAwait(events, k + 1)

\* How axios.post settles: it resolves on a 2xx response and rejects on any
\* other status, on a network error and on the 5 s timeout.
Outcomes == {"2xx", "non-2xx", "network", "timeout"}
Failed(outcome) == outcome # "2xx"

\* ---------------------------------------------------------------- actions

RemoveAt(s, i) == SubSeq(s, 1, i - 1) \o SubSeq(s, i + 1, Len(s))

\* The synchronous head of runSweep, up to `await this.fetchFleetStatus()`.
BeginSweep(origin) ==
  /\ sweeps' = Append(sweeps, [origin |-> origin, pc |-> "fetch",
                               snap |-> <<>>, events |-> <<>>, idx |-> 0,
                               attempts |-> <<>>, rejected |-> FALSE])
  /\ sweepsBegun' = sweepsBegun + 1

\* start() after `await this.runSweep().catch(...)`: setInterval.
ArmTimer ==
  /\ pollTimer' = timersArmed + 1
  /\ timers' = timers \cup {timersArmed + 1}
  /\ timersArmed' = timersArmed + 1

\* What follows the end of a runSweep() in the same turn: the caller resumes.
CallerResumes(origin) ==
  IF origin = "start" THEN ArmTimer
  ELSE UNCHANGED <<pollTimer, timers, timersArmed>>

\* Mutant of AlreadyRunning: start() has no guard.
AlreadyRunningUnchecked == FALSE

\* if (this.running) { warn; return; }
AlreadyRunning == running

\* start(); cap bounds the sweeps in flight.
Start(cap) ==
  /\ lastCall' = <<"start", running>>
  /\ IF AlreadyRunning
     THEN UNCHANGED <<config, thresholds, toolCall, running, pollTimer, timers, suppressedInstances,
                      suppressedProviders, lastKnownState, now, sweeps,
                      sweepsBegun, timersArmed, lastSweep, hist, delivery>>
     ELSE
       /\ Len(sweeps) < cap
       /\ sweepsBegun < MaxSweeps
       /\ running' = TRUE
       /\ BeginSweep("start")
       /\ UNCHANGED <<config, thresholds, toolCall, pollTimer, timers, suppressedInstances,
                      suppressedProviders, lastKnownState, now, timersArmed,
                      lastSweep, hist, delivery>>

\* Mutant of Stop: the sweeps in flight are cancelled.
StopCancels ==
  /\ running' = FALSE
  /\ sweeps' = <<>>
  /\ IF pollTimer # 0
     THEN /\ timers' = timers \ {pollTimer}
          /\ pollTimer' = 0
     ELSE UNCHANGED <<pollTimer, timers>>
  /\ lastCall' = <<"stop", running>>
  /\ UNCHANGED <<config, thresholds, toolCall, suppressedInstances, suppressedProviders,
                 lastKnownState, now, sweepsBegun, timersArmed,
                 lastSweep, hist, delivery>>

\* Mutant of Stop: the ledger and the last snapshot are reset.
StopResets ==
  /\ running' = FALSE
  /\ IF pollTimer # 0
     THEN /\ timers' = timers \ {pollTimer}
          /\ pollTimer' = 0
     ELSE UNCHANGED <<pollTimer, timers>>
  /\ lastCall' = <<"stop", running>>
  /\ suppressedInstances' = EmptyMap
  /\ suppressedProviders' = EmptyMap
  /\ lastKnownState' = <<>>
  /\ UNCHANGED <<config, thresholds, toolCall, now, sweeps, sweepsBegun, timersArmed,
                 lastSweep, hist, delivery>>

\* stop()
Stop ==
  /\ running' = FALSE
  /\ IF pollTimer # 0
     THEN /\ timers' = timers \ {pollTimer}
          /\ pollTimer' = 0
     ELSE UNCHANGED <<pollTimer, timers>>
  /\ lastCall' = <<"stop", running>>
  /\ UNCHANGED <<config, thresholds, toolCall, suppressedInstances, suppressedProviders,
                 lastKnownState, now, sweeps, sweepsBegun, timersArmed,
                 lastSweep, hist, delivery>>

\* Mutant of TickSkips: the callback does not look at the flag.
TickNeverSkips == FALSE

\* if (!this.running) return;
TickSkips == ~running

\* The setInterval callback of timer t.
Tick(t, cap) ==
  /\ t \in timers
  /\ IF TickSkips
     THEN UNCHANGED vars
     ELSE /\ Len(sweeps) < cap
          /\ sweepsBegun < MaxSweeps
          /\ BeginSweep("tick")
          /\ UNCHANGED <<config, thresholds, toolCall, running, pollTimer, timers,
                         suppressedInstances, suppressedProviders,
                         lastKnownState, now, timersArmed, lastCall, lastSweep,
                         hist, delivery>>

\* Mutant of FetchFails: the failed sweep forgets the last snapshot.
FetchFailsForgets(i) ==
  /\ i \in 1..Len(sweeps)
  /\ sweeps[i].pc = "fetch"
  /\ sweeps' = RemoveAt(sweeps, i)
  /\ lastKnownState' = <<>>
  /\ CallerResumes(sweeps[i].origin)
  /\ UNCHANGED <<config, thresholds, toolCall, running, suppressedInstances, suppressedProviders,
                 now, sweepsBegun, lastCall, lastSweep, hist, delivery>>

\* Mutant of FetchFails: the failure stops the scheduler.
FetchFailsStops(i) ==
  /\ i \in 1..Len(sweeps)
  /\ sweeps[i].pc = "fetch"
  /\ sweeps' = RemoveAt(sweeps, i)
  /\ running' = FALSE
  /\ UNCHANGED <<config, thresholds, toolCall, pollTimer, timers, timersArmed, suppressedInstances,
                 suppressedProviders, lastKnownState, now, sweepsBegun,
                 lastCall, lastSweep, hist, delivery>>

\* fetchFleetStatus rejects: runSweep logs and returns.
FetchFails(i) ==
  /\ i \in 1..Len(sweeps)
  /\ sweeps[i].pc = "fetch"
  /\ sweeps' = RemoveAt(sweeps, i)
  /\ CallerResumes(sweeps[i].origin)
  /\ UNCHANGED <<config, thresholds, toolCall, running, suppressedInstances, suppressedProviders,
                 lastKnownState, now, sweepsBegun, lastCall, lastSweep, hist,
                 delivery>>

\* Mutant of RecordState: only a snapshot with failures or degradation is kept.
RecordStateIfUnhealthy(fleet) ==
  IF fleet.failedInstances > 0 \/ fleet.degradedInstances > 0
  THEN <<fleet>> ELSE lastKnownState

\* The end of runSweep: this.lastKnownState = fleetStatus.
RecordState(fleet) == <<fleet>>

\* runSweep from event k of sweep i on: up to the next awaited delivery
\* (axios.post is called for event j), or, when no event is left, to the end
\* of runSweep and of its caller's turn.  attempts[n] counts the calls of
\* axios.post for event n so far; failed tells whether the delivery that has
\* just settled was rejected (the sweep remembers it as long as it runs).
DispatchFrom(i, origin, fleet, events, attempts, k, failed) ==
  LET j == NextAwait(events, k)
      posted == [attempts EXCEPT ![j] = @ + 1]
  IN  IF j <= Len(events)
      THEN /\ sweeps' = [sweeps EXCEPT ![i] =
                           [origin |-> origin, pc |-> "emit", snap |-> <<fleet>>,
                            events |-> events, idx |-> j, attempts |-> posted,
                            rejected |-> failed]]
           /\ delivery' = << [events |-> events, attempts |-> posted,
                              done |-> FALSE] >>
           /\ UNCHANGED <<lastKnownState, pollTimer, timers, timersArmed>>
      ELSE /\ sweeps' = RemoveAt(sweeps, i)
           /\ delivery' = << [events |-> events, attempts |-> attempts,
                              done |-> TRUE] >>
           /\ lastKnownState' = RecordState(fleet)
           /\ CallerResumes(origin)

\* fetchFleetStatus resolves with a snapshot: the five checks run and the
\* dispatch loop starts.  When a check throws, runSweep rejects there and
\* then: the .catch of its caller logs, and the caller goes on.
FetchResolves(i, fleet) ==
  /\ i \in 1..Len(sweeps)
  /\ sweeps[i].pc = "fetch"
  /\ LET r == Evaluate(thresholds, fleet, now, suppressedInstances,
                       suppressedProviders, lastKnownState)
     IN  /\ suppressedInstances' = r.suppressedInstances
         /\ suppressedProviders' = r.suppressedProviders
         /\ lastSweep' = << [tick |-> IF lastSweep = <<>> THEN 0
                                        ELSE 1 - lastSweep[1].tick,
                             at |-> now, snap |-> fleet, events |-> r.events,
                             threw |-> r.threw] >>
         /\ hist' = HistAfter(hist, fleet, now, r.events)
         /\ IF r.threw # NoThrow
            THEN /\ sweeps' = RemoveAt(sweeps, i)
                 /\ CallerResumes(sweeps[i].origin)
                 /\ UNCHANGED <<lastKnownState, delivery>>
            ELSE DispatchFrom(i, sweeps[i].origin, fleet, r.events,
                              [n \in 1..Len(r.events) |-> 0], 1, FALSE)
  /\ UNCHANGED <<config, thresholds, toolCall, running, now, sweepsBegun, lastCall>>

\* Mutant of DeliverySettles: a rejected delivery is attempted again.
DeliverySettlesRetries(i, outcome) ==
  /\ i \in 1..Len(sweeps)
  /\ sweeps[i].pc = "emit"
  /\ IF Failed(outcome)
     THEN LET again == [sweeps[i].attempts EXCEPT ![sweeps[i].idx] = @ + 1]
          IN  /\ sweeps' = [sweeps EXCEPT ![i].attempts = again,
                                          ![i].rejected = TRUE]
              /\ delivery' = << [events |-> sweeps[i].events, attempts |-> again,
                                 done |-> FALSE] >>
              /\ UNCHANGED <<lastKnownState, pollTimer, timers, timersArmed>>
     ELSE DispatchFrom(i, sweeps[i].origin, sweeps[i].snap[1], sweeps[i].events,
                       sweeps[i].attempts, sweeps[i].idx + 1, FALSE)
  /\ UNCHANGED <<config, thresholds, toolCall, running, suppressedInstances, suppressedProviders,
                 now, sweepsBegun, lastCall, lastSweep, hist>>

\* axios.post of the event in flight settles (a rejection is swallowed by
\* its .catch): the loop goes on with the next event.
DeliverySettles(i, outcome) ==
  /\ i \in 1..Len(sweeps)
  /\ sweeps[i].pc = "emit"
  /\ DispatchFrom(i, sweeps[i].origin, sweeps[i].snap[1], sweeps[i].events,
                  sweeps[i].attempts, sweeps[i].idx + 1, Failed(outcome))
  /\ UNCHANGED <<config, thresholds, toolCall, running, suppressedInstances, suppressedProviders,
                 now, sweepsBegun, lastCall, lastSweep, hist>>

\* Time passes.
Advance(maxSteps) ==
  /\ now < maxSteps * ClockStepMs
  /\ now' = now + ClockStepMs
  /\ UNCHANGED <<config, thresholds, toolCall, running, pollTimer, timers, suppressedInstances,
                 suppressedProviders, lastKnownState, sweeps, sweepsBegun,
                 timersArmed, lastCall, lastSweep, hist, delivery>>

\* ------------------------------------------------------------------ tools
\* The execute functions of the tools that change the fleet.  A parameter
\* object is a record whose optional fields may be missing; a string is the
\* sequence of its characters; a list of ids is known by its length.

Has(p, field) == field \in DOMAIN p
\* p.field ?? dflt
OrDefault(p, field, dflt) == IF Has(p, field) THEN p[field] ELSE dflt
NoField == [f \in {} |-> FALSE]
Optional(field, values) == {NoField} \cup { [f \in {field} |-> v] : v \in values }

\* Confirmation tokens: empty, blank, and not blank.
Tokens ==
  { <<>>, <<" ">>, <<"\t", " ">>, <<"t", "o", "k">>, <<" ", "t", " ">> }

\* !p.confirmationToken: the field is missing or the empty string.
NoToken(p) == ~Has(p, "confirmationToken") \/ p.confirmationToken = <<>>

\* String.prototype.trim
Whitespace == {" ", "\t", "\n"}
RECURSIVE TrimStart(_)
TrimStart(str) ==
  IF str # <<>> /\ Head(str) \in Whitespace THEN TrimStart(Tail(str)) ELSE str
RECURSIVE TrimEnd(_)
TrimEnd(str) ==
  IF str # <<>> /\ str[Len(str)] \in Whitespace
  THEN TrimEnd(SubSeq(str, 1, Len(str) - 1)) ELSE str
Trim(str) == TrimEnd(TrimStart(str))

\* What execute did: it threw before any request, or it posted one request.
Threw == [threw |-> TRUE, request |-> <<>>]
Posted(body) == [threw |-> FALSE, request |-> <<body>>]
\* An optional field of a request body: <<>> when undefined.
Forwarded(p, field) == IF Has(p, field) THEN <<p[field]>> ELSE <<>>

AllTargets == [all |-> TRUE, ids |-> 0]
TargetList(n) == [all |-> FALSE, ids |-> n]

\* configPushTool.execute
configPushExecute(p) ==
  IF /\ Has(p, "strategy") /\ p.strategy = "immediate"
     /\ p.targets = AllTargets
     /\ NoToken(p)
  THEN Threw
  ELSE Posted([targets |-> p.targets,
               strategy |-> OrDefault(p, "strategy", "rolling"),
               batch_size |-> OrDefault(p, "batchSize", DefaultBatchSize),
               auto_rollback |-> OrDefault(p, "autoRollback", TRUE),
               confirmation_token |-> Forwarded(p, "confirmationToken")])

\* Mutant of teardownExecute: the token is not trimmed.
teardownExecuteUntrimmed(p) ==
  IF NoToken(p)
  THEN Threw
  ELSE Posted([account_id |-> p.accountId,
               archive_before_teardown |-> OrDefault(p, "archiveBeforeTeardown", TRUE),
               confirmation_token |-> Forwarded(p, "confirmationToken"),
               standby_only |-> OrDefault(p, "standbyOnly", FALSE)])

\* teardownTool.execute
teardownExecute(p) ==
  IF NoToken(p) \/ Trim(p.confirmationToken) = <<>>
  THEN Threw
  ELSE Posted([account_id |-> p.accountId,
               archive_before_teardown |-> OrDefault(p, "archiveBeforeTeardown", TRUE),
               confirmation_token |-> Forwarded(p, "confirmationToken"),
               standby_only |-> OrDefault(p, "standbyOnly", FALSE)])

\* tierResizeTool.execute: no test before the request
tierResizeExecute(p) ==
  Posted([new_tier |-> p.newTier,
          resize_both |-> OrDefault(p, "resizeBoth", TRUE),
          confirmation_token |-> Forwarded(p, "confirmationToken"),
          dry_run |-> OrDefault(p, "dryRun", FALSE)])

\* Math.min
Min(a, b) == IF a < b THEN a ELSE b

\* bulkRestartTool.execute
bulkRestartExecute(p) ==
  IF p.instanceIds > MaxRestartInstances
  THEN Threw
  ELSE Posted([instance_ids |-> p.instanceIds,
               concurrency |-> Min(OrDefault(p, "concurrency", DefaultConcurrency),
                                   MaxConcurrency),
               post_restart_wait_secs |->
                 OrDefault(p, "postRestartWaitSecs", DefaultRestartWaitSecs),
               failover_on_unrecovered |-> OrDefault(p, "failoverOnUnrecovered", FALSE)])

\* The parameter objects the tools are called with.
ConfigPushInputs ==
  { [targets |-> tg] @@ st @@ tok @@ bs @@ ar :
      tg \in {AllTargets, TargetList(1), TargetList(ApprovalAbove),
              TargetList(ApprovalAbove + 1)},
      st \in Optional("strategy", {"rolling", "immediate"}),
      tok \in Optional("confirmationToken", {<<>>, <<"t", "o", "k">>}),
      bs \in Optional("batchSize", {10}),
      ar \in Optional("autoRollback", {FALSE}) }

TeardownInputs ==
  { [accountId |-> "acct-001", reason |-> "idle"] @@ tok @@ ar :
      tok \in Optional("confirmationToken", Tokens),
      ar \in Optional("archiveBeforeTeardown", BOOLEAN) }

TierResizeInputs ==
  { [accountId |-> "acct-001", newTier |-> "nano"] @@ tok @@ dr :
      tok \in Optional("confirmationToken", {<<>>, <<"t", "o", "k">>}),
      dr \in Optional("dryRun", BOOLEAN) }

BulkRestartInputs ==
  { [instanceIds |-> n, reason |-> "maintenance"] @@ cc :
      n \in {0, 1, MaxRestartInstances, MaxRestartInstances + 1},
      cc \in Optional("concurrency",
                      {0 - 1, 0, 1, MaxConcurrency, MaxConcurrency + 1}) }

\* One call of a tool's execute; the monitor is not involved.
Call(tool, p, did) ==
  /\ toolCall' = << [tool |-> tool, params |-> p, threw |-> did.threw,
                     request |-> did.request] >>
  /\ UNCHANGED <<config, thresholds, running, pollTimer, timers,
                 suppressedInstances, suppressedProviders, lastKnownState, now,
                 sweeps, sweepsBegun, timersArmed, lastCall, lastSweep, hist,
                 delivery>>

ConfigPush(p) == Call("gf_config_push", p, configPushExecute(p))
Teardown(p) == Call("gf_teardown", p, teardownExecute(p))
TierResize(p) == Call("gf_tier_resize", p, tierResizeExecute(p))
BulkRestart(p) == Call("gf_bulk_restart", p, bulkRestartExecute(p))

\* ---------------------------------------------------------- specifications

\* The state after `new HealthMonitorService(config, thresholds)`: the
\* thresholds given override the defaults, { ...DEFAULT_THRESHOLDS, ...thresholds }.
ConstructedWith(configs, overrides) ==
  /\ config \in configs
  /\ thresholds \in { o @@ DEFAULT_THRESHOLDS : o \in overrides }
  /\ running = FALSE
  /\ pollTimer = 0
  /\ timers = {}
  /\ suppressedInstances = EmptyMap
  /\ suppressedProviders = EmptyMap
  /\ lastKnownState = <<>>
  /\ now = 0
  /\ sweeps = <<>>
  /\ sweepsBegun = 0
  /\ timersArmed = 0
  /\ lastCall = <<"none", FALSE>>
  /\ hist = InitHist
  /\ lastSweep = <<>>
  /\ delivery = <<>>
  /\ toolCall = <<>>

\* The state after `new HealthMonitorService(config)`, as the plugin
\* constructs its monitor.
Constructed(configs) == ConstructedWith(configs, {NoField})

Init == Constructed(SeqConfigs)

\* The scheduler with overlapping sweeps.
Next ==
  \/ Start(MaxInFlight)
  \/ Stop
  \/ \E t \in timers : Tick(t, MaxInFlight)
  \/ \E i \in 1..Len(sweeps) : FetchFails(i)
  \/ \E i \in 1..Len(sweeps) : \E fleet \in SchedSnapshots : FetchResolves(i, fleet)
  \/ \E i \in 1..Len(sweeps) : \E outcome \in Outcomes : DeliverySettles(i, outcome)
  \/ Advance(MaxSchedClockSteps)

Spec == Init /\ [][Next]_vars

\* Sweeps that do not overlap: a call or a tick comes when no sweep is in
\* flight (the interval is longer than a sweep), with the full snapshot set.
InitSeq == Constructed(SeqConfigs)

NextSeq ==
  \/ Start(1)
  \/ \E t \in timers : Tick(t, 1)
  \/ \E i \in 1..Len(sweeps) : FetchFails(i)
  \/ \E i \in 1..Len(sweeps) : \E fleet \in Snapshots : FetchResolves(i, fleet)
  \/ \E i \in 1..Len(sweeps) : \E outcome \in Outcomes : DeliverySettles(i, outcome)
  \/ Advance(MaxClockSteps)

SpecSeq == InitSeq /\ [][NextSeq]_vars

\* Fault handling: sweeps that do not overlap, every configuration, responses
\* that lack a field, fetches and deliveries that fail.
InitFaults == Constructed(Configs)

NextFaults ==
  \/ Start(1)
  \/ \E t \in timers : Tick(t, 1)
  \/ \E i \in 1..Len(sweeps) : FetchFails(i)
  \/ \E i \in 1..Len(sweeps) : \E fleet \in FaultSnapshots : FetchResolves(i, fleet)
  \/ \E i \in 1..Len(sweeps) : \E outcome \in Outcomes : DeliverySettles(i, outcome)
  \/ Advance(MaxFaultClockSteps)

SpecFaults == InitFaults /\ [][NextFaults]_vars

\* The same with the scheduling the runtime gives: an armed interval timer
\* keeps firing, and a fetch or a delivery in flight settles (axios is called
\* with a timeout of 10 s and of 5 s).
SweepSettles ==
  \/ \E i \in 1..Len(sweeps) : FetchFails(i)
  \/ \E i \in 1..Len(sweeps) : \E fleet \in FaultSnapshots : FetchResolves(i, fleet)
  \/ \E i \in 1..Len(sweeps) : \E outcome \in Outcomes : DeliverySettles(i, outcome)

SpecLive ==
  /\ InitFaults
  /\ [][NextFaults]_vars
  /\ WF_vars(\E t \in timers : Tick(t, 1))
  /\ WF_vars(SweepSettles)

\* The rules one by one: sweeps that do not overlap and deliver nothing (no
\* session id is set), over snapshots around each threshold.
InitRules == Constructed(RuleConfigs)

NextRules ==
  \/ Start(1)
  \/ \E t \in timers : Tick(t, 1)
  \/ \E i \in 1..Len(sweeps) : \E fleet \in RuleSnapshots : FetchResolves(i, fleet)
  \/ Advance(MaxRuleClockSteps)

SpecRules == InitRules /\ [][NextRules]_vars

\* The tools, called in any order with any of their inputs.
InitTools == Constructed(RuleConfigs)

NextTools ==
  \/ \E p \in ConfigPushInputs : ConfigPush(p)
  \/ \E p \in TeardownInputs : Teardown(p)
  \/ \E p \in TierResizeInputs : TierResize(p)
  \/ \E p \in BulkRestartInputs : BulkRestart(p)

SpecTools == InitTools /\ [][NextTools]_vars

\* Overlapping sweeps over the suppressed rules: a tick comes while a sweep
\* awaits its fetch or a delivery.
InitOverlap == Constructed(OverlapConfigs)

NextOverlap ==
  \/ Start(MaxInFlight)
  \/ \E t \in timers : Tick(t, MaxInFlight)
  \/ \E i \in 1..Len(sweeps) : \E fleet \in OverlapSnapshots : FetchResolves(i, fleet)
  \/ \E i \in 1..Len(sweeps) : \E outcome \in Outcomes : DeliverySettles(i, outcome)
  \/ Advance(MaxOverlapClockSteps)

SpecOverlap == InitOverlap /\ [][NextOverlap]_vars

\* The dispatch loop: sweeps that do not overlap, every configuration,
\* snapshots for which most rules produce an event, deliveries that fail.
InitDispatch == Constructed(Configs)

NextDispatch ==
  \/ Start(1)
  \/ \E t \in timers : Tick(t, 1)
  \/ \E i \in 1..Len(sweeps) : \E fleet \in DispatchSnapshots : FetchResolves(i, fleet)
  \/ \E i \in 1..Len(sweeps) : \E outcome \in Outcomes : DeliverySettles(i, outcome)
  \/ Advance(MaxFaultClockSteps)

SpecDispatch == InitDispatch /\ [][NextDispatch]_vars

\* The constructor's second argument: nothing, or an instanceDegradedScore
\* below and above every health score.
ScoreOverrides == Optional("instanceDegradedScore", {0, 100})

\* Monitors constructed with different instanceDegradedScore: sweeps that do
\* not overlap and deliver nothing, over the snapshots of SpecSeq.
InitThresholds == ConstructedWith(RuleConfigs, ScoreOverrides)

NextThresholds ==
  \/ Start(1)
  \/ \E t \in timers : Tick(t, 1)
  \/ \E i \in 1..Len(sweeps) : \E fleet \in Snapshots : FetchResolves(i, fleet)
  \/ Advance(MaxRuleClockSteps)

SpecThresholds == InitThresholds /\ [][NextThresholds]_vars

\* ------------------------------------------------------------------ claims

\* A step in which a sweep evaluates its snapshot.
Evaluated == lastSweep' # lastSweep

\* The monitor's own state, without the history variables.
monitor == <<config, thresholds, running, pollTimer, timers, suppressedInstances,
             suppressedProviders, lastKnownState, sweeps>>

\* C1: in a run of consecutive sweeps that all see degraded instances, a sweep
\* less than the suppression window after the run's last INSTANCE_DEGRADED
\* produces none, and a sweep more than the window after it produces one.
C1_DegradedSuppression ==
  [][ (Evaluated /\ lastSweep'[1].snap.degradedInstances > 0
                 /\ hist.degradedBreachAt # Undefined)
      => LET L == lastSweep'[1]
             gap == L.at - hist.degradedBreachAt
         IN  /\ gap < InstanceSuppressionMs
                  => ~HasType(L.events, "INSTANCE_DEGRADED")
             /\ gap > InstanceSuppressionMs
                  => CountType(L.events, "INSTANCE_DEGRADED") = 1 ]_vars

\* C1 witness: an INSTANCE_DEGRADED, then a degraded sweep that produced none,
\* then a degraded sweep that produced a new one.
C1_Witness == hist.degradedPhase = "re-emitted"

\* C2: a sweep whose snapshot has failedInstances > 0 produces exactly one
\* PAIR_FAILED, at priority critical.
C2_FailedNeverSuppressed ==
  (lastSweep # <<>> /\ lastSweep[1].snap.failedInstances > 0)
  => LET ev == lastSweep[1].events
     IN  /\ CountType(ev, "PAIR_FAILED") = 1
         /\ \A i \in 1..Len(ev) :
              ev[i].type = "PAIR_FAILED" => ev[i].priority = "critical"

\* C2 witness: PAIR_FAILED is produced by a sweep whose INSTANCE_DEGRADED is
\* blocked by the ledger and whose predecessor had failed instances too.
C2_Witness ==
  /\ lastSweep # <<>>
  /\ lastSweep[1].snap.failedInstances > 0
  /\ lastSweep[1].snap.degradedInstances > 0
  /\ ~HasType(lastSweep[1].events, "INSTANCE_DEGRADED")
  /\ HasType(lastSweep[1].events, "PAIR_FAILED")
  /\ sweeps # <<>> /\ sweeps[1].pc = "emit"
  /\ lastKnownState # <<>> /\ lastKnownState[1].failedInstances > 0

\* C3: for a provider listed below the floor, a sweep produces exactly one
\* PROVIDER_DEGRADED when the provider has none yet or was listed at or above
\* the floor since its last one, and none within one hour of the last one
\* otherwise; a sweep that lists it at or above the floor leaves no entry.
C3_ProviderSuppression ==
  [][ Evaluated
      => LET L == lastSweep'[1]
         IN  \A p \in Providers :
               Listed(L.snap, p) =>
                 IF L.snap.byProvider[p] < providerDegradedScore
                 THEN /\ hist.providerBreachAt[p] = Undefined
                           => Cardinality(ProviderEvents(L.events, p)) = 1
                      /\ (hist.providerBreachAt[p] # Undefined
                          /\ L.at - hist.providerBreachAt[p] <= ProviderSuppressionMs)
                           => ProviderEvents(L.events, p) = {}
                 ELSE p \notin DOMAIN suppressedProviders' ]_vars

\* C3 witness: two PROVIDER_DEGRADED of one provider within the first hour.
C3_Witness ==
  /\ hist.providerEmits["hetzner"] = 2
  /\ now <= ProviderSuppressionMs

\* C4 (as claimed): after a sweep with no degraded instance the aggregate key
\* is absent, and a run of degraded sweeps opens with an INSTANCE_DEGRADED.
C4_ClearedOnRecovery ==
  lastSweep # <<>>
  => /\ lastSweep[1].snap.degradedInstances = 0
          => FleetDegradedKey \notin DOMAIN suppressedInstances
     /\ lastSweep[1].snap.degradedInstances > 0
          => hist.degradedBreachAt # Undefined

\* C5: a sweep produces FLEET_RECOVERING exactly when lastKnownState exists
\* with failed or degraded instances and the snapshot has neither; the event
\* is single, of priority low, and carries the previous counts.
C5_RecoveryEdge ==
  [][ Evaluated
      => LET ev == lastSweep'[1].events
             fleet == lastSweep'[1].snap
         IN  /\ HasType(ev, "FLEET_RECOVERING")
                  <=> /\ lastKnownState # <<>>
                      /\ Unhealthy(lastKnownState[1])
                      /\ fleet.failedInstances = 0
                      /\ fleet.degradedInstances = 0
             /\ CountType(ev, "FLEET_RECOVERING") <= 1
             /\ \A i \in 1..Len(ev) :
                  ev[i].type = "FLEET_RECOVERING"
                  => /\ ev[i].priority = "low"
                     /\ ev[i].payload.previousFailed
                          = lastKnownState[1].failedInstances
                     /\ ev[i].payload.previousDegraded
                          = lastKnownState[1].degradedInstances ]_vars

\* C5 witness: a sweep has produced FLEET_RECOVERING.
C5_Witness ==
  lastSweep # <<>> /\ HasType(lastSweep[1].events, "FLEET_RECOVERING")

\* C6: with sweeps that do not overlap, once the evaluated sweep has ended
\* lastKnownState is its snapshot, and a FLEET_RECOVERING is never produced
\* while only healthy sweeps followed the previous one.
C6_RecoveryOncePerEdge ==
  [][ /\ (sweeps' = <<>> /\ lastSweep' # <<>>)
           => lastKnownState' = <<lastSweep'[1].snap>>
      /\ (Evaluated /\ HasType(lastSweep'[1].events, "FLEET_RECOVERING"))
           => hist.sinceRecovery # "healthy" ]_vars

\* C6 witness: after a FLEET_RECOVERING, a later healthy sweep has ended
\* without producing another.
C6_Witness ==
  /\ hist.sinceRecovery = "healthy"
  /\ lastSweep # <<>>
  /\ ~Unhealthy(lastSweep[1].snap)
  /\ ~HasType(lastSweep[1].events, "FLEET_RECOVERING")
  /\ sweeps = <<>>

\* C7: start() called while the running flag is set changes nothing.
C7_StartIdempotent ==
  [][ (lastCall' # lastCall /\ lastCall' = <<"start", TRUE>>)
      => UNCHANGED <<monitor, now, sweepsBegun, timersArmed, lastSweep, hist,
                     delivery, toolCall>> ]_vars

\* C7 witness: start() was called while the first start()'s initial sweep
\* was still awaiting its fetch.
C7_Witness ==
  /\ lastCall = <<"start", TRUE>>
  /\ sweepsBegun = 1
  /\ Len(sweeps) = 1 /\ sweeps[1].origin = "start" /\ sweeps[1].pc = "fetch"
  /\ pollTimer = 0

\* C8 (as claimed): at most one interval timer is live.
C8_OneTimer == Cardinality(timers) <= 1

\* C9: after stop() the running flag is false, and no sweep begins until
\* start() is called.
C9_NoSweepAfterStop ==
  [][ /\ lastCall'[1] = "stop" => ~running'
      /\ (lastCall[1] = "stop" /\ lastCall' = lastCall)
           => sweepsBegun' = sweepsBegun ]_vars

\* C9 witness: the monitor is stopped, no sweep is in flight, and the timer
\* armed by a start() whose initial sweep outlasted the stop() is live.
C9_Witness ==
  /\ lastCall[1] = "stop"
  /\ timers # {}
  /\ sweeps = <<>>

\* C10 (as claimed): no timer-driven sweep begins while an initial sweep of
\* start() is in flight.
C10_InitialSweepFirst ==
  \A i, j \in 1..Len(sweeps) :
    (i < j /\ sweeps[i].origin = "start") => sweeps[j].origin # "tick"

\* The target of the event has a session id (forge never has one).
Addressed(event) ==
  \/ event.targetAgent = "guardian" /\ config.guardianSessionId # NoSession
  \/ event.targetAgent = "ledger" /\ config.ledgerSessionId # NoSession
  \/ event.targetAgent = "commander" /\ config.commanderSessionId # NoSession

\* A step in which the fetch of sweep i fails: the sweep ends unevaluated.
FetchFailed(i) ==
  /\ sweeps[i].pc = "fetch"
  /\ sweeps' = RemoveAt(sweeps, i)
  /\ lastSweep' = lastSweep

\* C11: a sweep whose fetch fails ends with no rule evaluated and no event
\* produced or dispatched; both ledgers, lastKnownState and the running flag
\* are unchanged, and so is the timer (after the initial sweep, start() arms
\* it as it does after a successful one): the next sweep finds the state the
\* failed one found.
C11_FetchFailureAborts ==
  [][ \A i \in 1..Len(sweeps) :
        FetchFailed(i)
        => /\ UNCHANGED <<suppressedInstances, suppressedProviders,
                          lastKnownState, running, hist, delivery>>
           /\ sweeps[i].origin = "tick" => UNCHANGED <<pollTimer, timers>>
           /\ sweeps[i].origin = "start"
                => /\ pollTimer' \in timers'
                   /\ timers \subseteq timers' ]_vars

\* C11 witness: the initial sweep's fetch failed (it ended unevaluated), the
\* monitor is running with its timer armed, and the next tick's sweep began.
C11_Witness ==
  /\ sweepsBegun = 2
  /\ lastSweep = <<>>
  /\ Len(sweeps) = 1 /\ sweeps[1].origin = "tick" /\ sweeps[1].pc = "fetch"
  /\ running
  /\ pollTimer \in timers

\* C12 (as claimed): a sweep in which a rule throws still evaluates the rules
\* after it (a provision backlog yields its event), runs its dispatch loop on
\* the events produced, and records its snapshot once it has ended.
C12_RuleFailureIsolated ==
  (lastSweep # <<>> /\ lastSweep[1].threw # NoThrow)
  => /\ lastSweep[1].snap.bootstrappingInstances >= provisionQueueDepth
          => HasType(lastSweep[1].events, "PROVISION_QUEUE_BACKLOG")
     /\ delivery # <<>> /\ delivery[1].events = lastSweep[1].events
     /\ sweeps = <<>> => lastKnownState = <<lastSweep[1].snap>>

\* C13: with sweeps that do not overlap, no event is ever posted twice; when
\* a delivery settles, failed or not, the running flag is unchanged and the
\* loop goes on: every addressed event up to the one in flight has been posted
\* once, and when the loop is done every addressed event has been posted once
\* and lastKnownState is the sweep's snapshot.
C13_SingleAttempt ==
  [][ delivery' # delivery
      => LET D == delivery'[1]
         IN  /\ running' = running
             /\ \A n \in 1..Len(D.events) : D.attempts[n] <= 1
             /\ ~D.done
                  => /\ sweeps' # <<>>
                     /\ \A n \in 1..sweeps'[1].idx :
                          Addressed(D.events[n]) => D.attempts[n] = 1
             /\ D.done
                  => /\ sweeps' = <<>>
                     /\ \A n \in 1..Len(D.events) :
                          Addressed(D.events[n]) => D.attempts[n] = 1
                     /\ lastKnownState' = <<lastSweep'[1].snap>> ]_vars

\* C13 witness: a delivery was rejected, and the next addressed event of the
\* same sweep has been posted after it.
C13_Witness ==
  /\ sweeps # <<>>
  /\ sweeps[1].pc = "emit"
  /\ sweeps[1].rejected
  /\ delivery # <<>>
  /\ ~delivery[1].done
  /\ \E n, m \in 1..Len(delivery[1].events) :
       n < m /\ delivery[1].attempts[n] = 1 /\ delivery[1].attempts[m] = 1

\* C14: an event whose target has no session id is never posted, and so no
\* PROVISION_QUEUE_BACKLOG is; the events after it are still dispatched (when
\* the loop is done every addressed event has been posted), and the sweep
\* ends normally, recording its snapshot.
C14_NoAddressNoDelivery ==
  delivery # <<>>
  => LET D == delivery[1]
     IN  /\ \A n \in 1..Len(D.events) :
              /\ ~Addressed(D.events[n]) => D.attempts[n] = 0
              /\ D.events[n].type = "PROVISION_QUEUE_BACKLOG" => D.attempts[n] = 0
              /\ (D.done /\ Addressed(D.events[n])) => D.attempts[n] = 1
         /\ (D.done /\ sweeps = <<>> /\ lastSweep[1].threw = NoThrow)
              => lastKnownState = <<lastSweep[1].snap>>

\* C14 witness: a dispatch loop is done in which an event for guardian and
\* the PROVISION_QUEUE_BACKLOG for forge were dropped and a later event
\* was posted.
C14_Witness ==
  /\ delivery # <<>>
  /\ delivery[1].done
  /\ HasType(delivery[1].events, "PROVISION_QUEUE_BACKLOG")
  /\ \E n, m \in 1..Len(delivery[1].events) :
       /\ n < m
       /\ delivery[1].events[n].targetAgent = "guardian"
       /\ delivery[1].attempts[n] = 0
       /\ delivery[1].attempts[m] = 1

\* C15: no step of a sweep (a failed fetch, a rule that throws, a rejected
\* delivery) clears the running flag or disarms a timer, and, stop() not
\* being called, a running monitor keeps beginning sweeps: from every number
\* of sweeps begun below the bound, one more begins.
C15_SchedulerSurvives ==
  /\ [][ (running => running') /\ timers \subseteq timers' ]_vars
  /\ \A n \in 0..(MaxSweeps - 1) :
       (running /\ sweepsBegun = n) ~> (sweepsBegun > n)

\* C15 witness: after a sweep in which a rule threw, the monitor is running
\* with its timer armed and the next tick's sweep has begun.
C15_Witness ==
  /\ lastSweep # <<>>
  /\ lastSweep[1].threw # NoThrow
  /\ running
  /\ pollTimer \in timers
  /\ Len(sweeps) = 1 /\ sweeps[1].origin = "tick" /\ sweeps[1].pc = "fetch"

\* The events of type ty among events.
OfType(events, ty) == {i \in 1..Len(events) : events[i].type = ty}

\* C16: a sweep whose snapshot has no degraded and no failed instance
\* produces neither INSTANCE_DEGRADED nor PAIR_FAILED.
C16_HealthyIsSilent ==
  (lastSweep # <<>>
   /\ lastSweep[1].snap.degradedInstances = 0
   /\ lastSweep[1].snap.failedInstances = 0)
  => /\ ~HasType(lastSweep[1].events, "INSTANCE_DEGRADED")
     /\ ~HasType(lastSweep[1].events, "PAIR_FAILED")

\* C16 witness: a healthy snapshot was evaluated while the ledger held the
\* aggregate key and lastKnownState had failed or degraded instances.
C16_Witness ==
  /\ lastSweep # <<>>
  /\ ~Unhealthy(lastSweep[1].snap)
  /\ FleetDegradedKey \in DOMAIN suppressedInstances
  /\ HasType(lastSweep[1].events, "FLEET_RECOVERING")

\* C17: a sweep in which no rule throws produces COST_ANOMALY, once, exactly
\* when |deviationPct| >= costAnomalyPct, whatever the sweeps before it
\* produced; the priority is high above 25 and medium otherwise, the direction
\* "over" for a positive deviation and "under" for a negative one.
C17_CostAnomaly ==
  (lastSweep # <<>> /\ lastSweep[1].threw = NoThrow)
  => LET ev == lastSweep[1].events
         dev == lastSweep[1].snap.cost.deviationPct
         size == IF dev < 0 THEN 0 - dev ELSE dev
     IN  /\ Cardinality(OfType(ev, "COST_ANOMALY"))
              = IF size >= costAnomalyPct THEN 1 ELSE 0
         /\ \A i \in OfType(ev, "COST_ANOMALY") :
              /\ ev[i].priority = IF size > CostHighAbove THEN "high" ELSE "medium"
              /\ dev > 0 => ev[i].payload.direction = "over"
              /\ dev < 0 => ev[i].payload.direction = "under"

\* C17 witness: two consecutive sweeps produced COST_ANOMALY, the second for
\* a negative deviation.
C17_Witness ==
  /\ hist.costRun = 2
  /\ \E i \in OfType(lastSweep[1].events, "COST_ANOMALY") :
       lastSweep[1].events[i].payload.direction = "under"

\* C18: a sweep in which no rule throws produces PROVISION_QUEUE_BACKLOG,
\* once, exactly when bootstrappingInstances >= provisionQueueDepth, whatever
\* the sweeps before it produced; the priority is high above 50 and medium
\* otherwise.
C18_ProvisionQueue ==
  (lastSweep # <<>> /\ lastSweep[1].threw = NoThrow)
  => LET ev == lastSweep[1].events
         depth == lastSweep[1].snap.bootstrappingInstances
     IN  /\ Cardinality(OfType(ev, "PROVISION_QUEUE_BACKLOG"))
              = IF depth >= provisionQueueDepth THEN 1 ELSE 0
         /\ \A i \in OfType(ev, "PROVISION_QUEUE_BACKLOG") :
              ev[i].priority = IF depth > QueueHighAbove THEN "high" ELSE "medium"

\* C18 witness: two consecutive sweeps produced PROVISION_QUEUE_BACKLOG, the
\* second at exactly the ceiling.
C18_Witness ==
  /\ hist.queueRun = 2
  /\ lastSweep[1].snap.bootstrappingInstances = provisionQueueDepth

\* C19: every INSTANCE_DEGRADED produced has priority high when the snapshot
\* has more than 10 degraded instances and medium when it has 1 to 10.
C19_DegradedPriority ==
  lastSweep # <<>>
  => LET ev == lastSweep[1].events
         d == lastSweep[1].snap.degradedInstances
     IN  \A i \in OfType(ev, "INSTANCE_DEGRADED") :
           /\ d >= 1
           /\ d > DegradedHighAbove => ev[i].priority = "high"
           /\ d <= DegradedHighAbove => ev[i].priority = "medium"

\* C19 witness: an INSTANCE_DEGRADED of priority medium for exactly 10
\* degraded instances.
C19_Witness ==
  /\ lastSweep # <<>>
  /\ lastSweep[1].snap.degradedInstances = DegradedHighAbove
  /\ \E i \in OfType(lastSweep[1].events, "INSTANCE_DEGRADED") :
       lastSweep[1].events[i].priority = "medium"

\* C20: whether a sweep produces PROVIDER_DEGRADED for a listed provider
\* depends on that provider's score and ledger entry alone; an emission sets
\* that provider's expiry to now + 60 minutes, a blocked one leaves its entry
\* as it was, and the priority is critical below 50 and high otherwise.
C20_PerProvider ==
  [][ (Evaluated /\ lastSweep'[1].threw = NoThrow)
      => LET L == lastSweep'[1]
         IN  \A p \in Providers :
               Listed(L.snap, p)
               => LET score == L.snap.byProvider[p]
                      entry == MapGet(suppressedProviders, p)
                      emits == /\ score < providerDegradedScore
                               /\ (entry = Undefined \/ L.at > entry)
                  IN  /\ Cardinality(ProviderEvents(L.events, p))
                           = IF emits THEN 1 ELSE 0
                      /\ emits => MapGet(suppressedProviders', p)
                                    = L.at + ProviderSuppressionMins * MsPerMinute
                      /\ (score < providerDegradedScore /\ ~emits)
                           => MapGet(suppressedProviders', p) = entry
                      /\ \A i \in ProviderEvents(L.events, p) :
                           L.events[i].priority
                             = IF score < ProviderCriticalBelow
                               THEN "critical" ELSE "high" ]_vars

\* C20 witness: a sweep produced PROVIDER_DEGRADED for vultr while hetzner,
\* below the floor too, was blocked by its own entry; the two expiries differ.
C20_Witness ==
  /\ lastSweep # <<>>
  /\ Listed(lastSweep[1].snap, "vultr")
  /\ lastSweep[1].snap.byProvider["hetzner"] < providerDegradedScore
  /\ ProviderEvents(lastSweep[1].events, "vultr") # {}
  /\ ProviderEvents(lastSweep[1].events, "hetzner") = {}
  /\ "hetzner" \in DOMAIN suppressedProviders
  /\ suppressedProviders["hetzner"] # suppressedProviders["vultr"]

\* C21 (as claimed): after a sweep that saw the breach, the key of the
\* breached condition expires one window after that sweep, whether the sweep
\* emitted or was blocked.
C21_RefreshedWhileSuppressed ==
  (lastSweep # <<>> /\ lastSweep[1].threw = NoThrow)
  => LET L == lastSweep[1]
     IN  /\ L.snap.degradedInstances > 0
              => MapGet(suppressedInstances, FleetDegradedKey)
                   = L.at + InstanceSuppressionMs
         /\ \A p \in Providers :
              (Listed(L.snap, p) /\ L.snap.byProvider[p] < providerDegradedScore)
              => MapGet(suppressedProviders, p) = L.at + ProviderSuppressionMs

\* C22 (as claimed): a sweep that sees the breach at or after the stored
\* expiry emits and stores a new expiry; one strictly before it emits nothing
\* for that key.
C22_BlocksWhileInFuture ==
  [][ (Evaluated /\ lastSweep'[1].threw = NoThrow)
      => LET L == lastSweep'[1]
             inst == MapGet(suppressedInstances, FleetDegradedKey)
         IN  /\ (L.snap.degradedInstances > 0 /\ inst # Undefined)
                  => IF L.at >= inst
                     THEN /\ HasType(L.events, "INSTANCE_DEGRADED")
                          /\ MapGet(suppressedInstances', FleetDegradedKey)
                               = L.at + InstanceSuppressionMs
                     ELSE ~HasType(L.events, "INSTANCE_DEGRADED")
             /\ \A p \in Providers :
                  LET prov == MapGet(suppressedProviders, p)
                  IN  (Listed(L.snap, p) /\ prov # Undefined
                       /\ L.snap.byProvider[p] < providerDegradedScore)
                      => IF L.at >= prov
                         THEN /\ ProviderEvents(L.events, p) # {}
                              /\ MapGet(suppressedProviders', p)
                                   = L.at + ProviderSuppressionMs
                         ELSE ProviderEvents(L.events, p) = {} ]_vars

\* C23 (as claimed): the events of two sweeps in flight never share an
\* identifier.
C23_UniqueEventIds ==
  \A i, j \in 1..Len(sweeps) :
    i < j
    => \A a \in 1..Len(sweeps[i].events) : \A b \in 1..Len(sweeps[j].events) :
         sweeps[i].events[a].eventId # sweeps[j].events[b].eventId

\* The consumer of each type of event.
ConsumerOf(ty) ==
  CASE ty \in {"INSTANCE_DEGRADED", "PAIR_FAILED"} -> "guardian"
    [] ty = "COST_ANOMALY" -> "ledger"
    [] ty = "PROVISION_QUEUE_BACKLOG" -> "forge"
    [] ty \in {"PROVIDER_DEGRADED", "FLEET_RECOVERING"} -> "commander"

\* C24: every event produced is addressed to the consumer of its type:
\* INSTANCE_DEGRADED and PAIR_FAILED to guardian, COST_ANOMALY to ledger,
\* PROVISION_QUEUE_BACKLOG to forge, PROVIDER_DEGRADED to commander.
C24_TargetByType ==
  lastSweep # <<>>
  => \A i \in 1..Len(lastSweep[1].events) :
       lastSweep[1].events[i].targetAgent = ConsumerOf(lastSweep[1].events[i].type)

\* C24 witness: every one of the five types has been produced: the last
\* sweep produced COST_ANOMALY after sweeps that produced the others.
C24_Witness ==
  /\ lastSweep # <<>>
  /\ HasType(lastSweep[1].events, "COST_ANOMALY")
  /\ hist.queueRun = 0
  /\ hist.providerEmits["hetzner"] > 0
  /\ FleetDegradedKey \in DOMAIN suppressedInstances

\* C25: stop() leaves the sweeps in flight as they are, and a sweep that is
\* evaluated or ends while the running flag is off does what it does while
\* it is on: it evaluates into the ledger, posts its addressed events once
\* each and records its snapshot.
C25_StopDoesNotInterrupt ==
  [][ /\ (lastCall' # lastCall /\ lastCall'[1] = "stop")
           => UNCHANGED <<sweeps, suppressedInstances, suppressedProviders,
                          lastKnownState, lastSweep, delivery>>
      /\ (~running /\ Evaluated)
           => /\ lastSweep'[1].snap.degradedInstances > 0
                   => FleetDegradedKey \in DOMAIN suppressedInstances'
              /\ delivery' # <<>> /\ delivery'[1].events = lastSweep'[1].events
      /\ (~running /\ delivery' # delivery /\ delivery'[1].done)
           => /\ lastKnownState' # <<>>
              /\ \A n \in 1..Len(delivery'[1].events) :
                   Addressed(delivery'[1].events[n])
                   => delivery'[1].attempts[n] = 1 ]_vars

\* C25 witness: stop() was called while the initial sweep was in flight (the
\* timer that start() armed after it is live); the sweep has since posted its
\* event and recorded its snapshot.
C25_Witness ==
  /\ lastCall = <<"stop", TRUE>>
  /\ ~running
  /\ sweepsBegun = 1
  /\ sweeps = <<>>
  /\ timers # {}
  /\ lastKnownState # <<>>
  /\ delivery # <<>> /\ delivery[1].done
  /\ \E n \in 1..Len(delivery[1].events) : delivery[1].attempts[n] = 1

\* C26 (as claimed): at most one sweep is in progress.
C26_OneSweepAtATime == Len(sweeps) <= 1

\* The last call was of this tool.
Called(tool) == toolCall # <<>> /\ toolCall[1].tool = tool

\* Every character of the string is white space (so is the empty string).
Blank(str) == \A i \in 1..Len(str) : str[i] \in {" ", "\t", "\n"}

\* C27 (as claimed): an immediate push without token to "all" or to more
\* than 100 ids throws and posts nothing; every other call posts one request
\* with the strategy defaulting to rolling, the batch size to 50 and the
\* auto-rollback to true.
C27_ImmediatePushNeedsToken ==
  Called("gf_config_push")
  => LET p == toolCall[1].params
         unapproved ==
           /\ "strategy" \in DOMAIN p /\ p.strategy = "immediate"
           /\ p.targets.all \/ p.targets.ids > ApprovalAbove
           /\ "confirmationToken" \notin DOMAIN p \/ p.confirmationToken = <<>>
     IN  IF unapproved
         THEN toolCall[1].threw /\ toolCall[1].request = <<>>
         ELSE /\ ~toolCall[1].threw
              /\ Len(toolCall[1].request) = 1
              /\ LET body == toolCall[1].request[1]
                 IN  /\ body.targets = p.targets
                     /\ body.strategy
                          = IF "strategy" \in DOMAIN p THEN p.strategy ELSE "rolling"
                     /\ body.batch_size
                          = IF "batchSize" \in DOMAIN p THEN p.batchSize ELSE 50
                     /\ body.auto_rollback
                          = IF "autoRollback" \in DOMAIN p THEN p.autoRollback ELSE TRUE

\* C28: a gf_teardown call whose token is missing, empty or blank throws and
\* posts nothing; a posted request carries a token that is not blank, and
\* archive_before_teardown is true unless the call says otherwise.
C28_TeardownNeedsToken ==
  Called("gf_teardown")
  => LET p == toolCall[1].params
         blank == "confirmationToken" \notin DOMAIN p \/ Blank(p.confirmationToken)
     IN  /\ blank => toolCall[1].threw /\ toolCall[1].request = <<>>
         /\ ~blank
              => /\ ~toolCall[1].threw
                 /\ Len(toolCall[1].request) = 1
                 /\ toolCall[1].request[1].confirmation_token = <<p.confirmationToken>>
                 /\ toolCall[1].request[1].archive_before_teardown
                      = IF "archiveBeforeTeardown" \in DOMAIN p
                        THEN p.archiveBeforeTeardown ELSE TRUE

\* C28 witness: a call with a token of white space only was refused.
C28_Witness ==
  /\ Called("gf_teardown")
  /\ "confirmationToken" \in DOMAIN toolCall[1].params
  /\ Len(toolCall[1].params.confirmationToken) = 2
  /\ Blank(toolCall[1].params.confirmationToken)
  /\ toolCall[1].threw

\* C29 (as claimed): a gf_tier_resize call whose token is missing or empty
\* posts no request.
C29_ResizeNeedsToken ==
  Called("gf_tier_resize")
  => LET p == toolCall[1].params
     IN  ("confirmationToken" \notin DOMAIN p \/ p.confirmationToken = <<>>)
         => toolCall[1].request = <<>>

\* C30 (as claimed): a gf_bulk_restart call with more than 200 ids throws and
\* posts nothing, and the concurrency of a posted request is within 1..50,
\* 20 when the call gives none.
C30_RestartLimits ==
  Called("gf_bulk_restart")
  => LET p == toolCall[1].params
     IN  /\ p.instanceIds > 200
              => toolCall[1].threw /\ toolCall[1].request = <<>>
         /\ toolCall[1].request # <<>>
              => /\ toolCall[1].request[1].concurrency \in 1..50
                 /\ "concurrency" \notin DOMAIN p
                      => toolCall[1].request[1].concurrency = 20

\* C31 (as claimed): a sweep that creates or renews a ledger entry runs its
\* dispatch loop over the events it produced, the event of that entry among
\* them, even when a later rule of the sweep throws.
C31_LedgerEntryDispatched ==
  [][ Evaluated
      => LET L == lastSweep'[1]
             looped == delivery' # <<>> /\ delivery'[1].events = L.events
         IN  /\ (MapGet(suppressedInstances', FleetDegradedKey) # Undefined
                 /\ MapGet(suppressedInstances', FleetDegradedKey)
                      # MapGet(suppressedInstances, FleetDegradedKey))
                  => looped /\ HasType(L.events, "INSTANCE_DEGRADED")
             /\ \A p \in Providers :
                  (MapGet(suppressedProviders', p) # Undefined
                   /\ MapGet(suppressedProviders', p) # MapGet(suppressedProviders, p))
                  => looped /\ ProviderEvents(L.events, p) # {} ]_vars

\* C32 (as claimed): while the running flag is off and no start() is awaiting
\* its initial sweep, pollTimer is null and no interval timer is armed.
C32_NoTimerWhenStopped ==
  (~running /\ \A i \in 1..Len(sweeps) : sweeps[i].origin # "start")
  => pollTimer = 0 /\ timers = {}

\* C33 (as claimed): also when sweeps overlap, no FLEET_RECOVERING is
\* produced while only healthy snapshots were fetched since the previous one,
\* and once no sweep is in flight lastKnownState is the snapshot fetched last.
C33_OverlapOneRecovery ==
  [][ /\ (Evaluated /\ HasType(lastSweep'[1].events, "FLEET_RECOVERING"))
           => hist.sinceRecovery # "healthy"
      /\ (sweeps # <<>> /\ sweeps' = <<>> /\ lastSweep' # <<>>
          /\ lastKnownState' # lastKnownState)
           => lastKnownState' = <<lastSweep'[1].snap>> ]_vars

\* C34: also when sweeps overlap, a sweep produces at most one
\* INSTANCE_DEGRADED and at most one PROVIDER_DEGRADED per provider, and while
\* a condition holds from one evaluated snapshot to the next, two of its
\* events are never less than its suppression window apart.
C34_OnePerWindow ==
  [][ Evaluated
      => LET L == lastSweep'[1]
         IN  /\ CountType(L.events, "INSTANCE_DEGRADED") <= 1
             /\ (HasType(L.events, "INSTANCE_DEGRADED")
                 /\ hist.degradedBreachAt # Undefined)
                  => L.at - hist.degradedBreachAt >= InstanceSuppressionMs
             /\ \A p \in Providers :
                  /\ Cardinality(ProviderEvents(L.events, p)) <= 1
                  /\ (ProviderEvents(L.events, p) # {}
                      /\ hist.providerBreachAt[p] # Undefined)
                       => L.at - hist.providerBreachAt[p] >= ProviderSuppressionMs ]_vars

\* C34 witness: while a sweep still awaits the delivery of the
\* INSTANCE_DEGRADED it produced, a second sweep has evaluated a snapshot
\* with both conditions breached and produced nothing.
C34_Witness ==
  /\ Len(sweeps) = 1
  /\ sweeps[1].pc = "emit"
  /\ HasType(sweeps[1].events, "INSTANCE_DEGRADED")
  /\ ProviderEvents(sweeps[1].events, "hetzner") # {}
  /\ sweeps[1].idx = 1
  /\ lastSweep # <<>>
  /\ lastSweep[1].snap.degradedInstances > 0
  /\ lastSweep[1].snap.byProvider["hetzner"] < providerDegradedScore
  /\ lastSweep[1].events = <<>>
  /\ lastKnownState = <<lastSweep[1].snap>>

\* C35: a sweep removes a provider's entry only when its snapshot lists the
\* provider at or above the floor; the entry of a provider that the snapshot
\* does not list is left as it is; and a provider that was not listed for a
\* while and is listed below the floor again, within one hour of its last
\* PROVIDER_DEGRADED, gets no new one.
C35_UnlistedProviderKeepsEntry ==
  [][ Evaluated
      => LET L == lastSweep'[1]
         IN  \A p \in Providers :
               /\ (p \in DOMAIN suppressedProviders
                   /\ p \notin DOMAIN suppressedProviders')
                    => /\ Listed(L.snap, p)
                       /\ L.snap.byProvider[p] >= providerDegradedScore
               /\ ~Listed(L.snap, p)
                    => MapGet(suppressedProviders', p) = MapGet(suppressedProviders, p)
               /\ (Listed(L.snap, p)
                   /\ L.snap.byProvider[p] < providerDegradedScore
                   /\ hist.providerUnlisted[p]
                   /\ L.at - hist.providerBreachAt[p] <= ProviderSuppressionMs)
                    => ProviderEvents(L.events, p) = {} ]_vars

\* C35 witness: vultr got a PROVIDER_DEGRADED, was then missing from a
\* snapshot, and is now listed below the floor again: the sweep produced no
\* event for it and its entry is the old one.
C35_Witness ==
  /\ lastSweep # <<>>
  /\ Listed(lastSweep[1].snap, "vultr")
  /\ lastSweep[1].snap.byProvider["vultr"] < providerDegradedScore
  /\ hist.providerUnlisted["vultr"]
  /\ ProviderEvents(lastSweep[1].events, "vultr") = {}
  /\ MapGet(suppressedProviders, "vultr")
       = hist.providerBreachAt["vultr"] + ProviderSuppressionMs
  /\ lastSweep[1].at > hist.providerBreachAt["vultr"]

\* C36: no sweep produces FLEET_RECOVERING together with INSTANCE_DEGRADED
\* or with PAIR_FAILED.
C36_RecoveryExcludesAlarm ==
  (lastSweep # <<>> /\ HasType(lastSweep[1].events, "FLEET_RECOVERING"))
  => /\ ~HasType(lastSweep[1].events, "INSTANCE_DEGRADED")
     /\ ~HasType(lastSweep[1].events, "PAIR_FAILED")

\* C36 witness: a sweep produced FLEET_RECOVERING after a snapshot with both
\* degraded and failed instances, next to a PROVIDER_DEGRADED, while the
\* aggregate key had expired.
C36_Witness ==
  /\ lastSweep # <<>>
  /\ Len(lastSweep[1].events) = 2
  /\ lastSweep[1].events[1].type = "PROVIDER_DEGRADED"
  /\ lastSweep[1].events[2].type = "FLEET_RECOVERING"
  /\ lastSweep[1].events[2].payload.previousFailed > 0
  /\ lastSweep[1].events[2].payload.previousDegraded > 0
  /\ FleetDegradedKey \in DOMAIN suppressedInstances
  /\ lastSweep[1].at > suppressedInstances[FleetDegradedKey]

\* The place of each type of event in the array of runSweep.
Rank(ty) ==
  CASE ty = "INSTANCE_DEGRADED" -> 1
    [] ty = "PAIR_FAILED" -> 2
    [] ty = "COST_ANOMALY" -> 3
    [] ty = "PROVISION_QUEUE_BACKLOG" -> 4
    [] ty = "PROVIDER_DEGRADED" -> 5
    [] ty = "FLEET_RECOVERING" -> 6
    [] OTHER -> 0

\* C37: the events of a sweep are in the order INSTANCE_DEGRADED,
\* PAIR_FAILED, COST_ANOMALY, PROVISION_QUEUE_BACKLOG, PROVIDER_DEGRADED (at
\* most one per provider), FLEET_RECOVERING, at most one of each other type,
\* and none is of another type; they are posted one at a time in that order
\* (when one is awaited, every addressed event before it has been posted and
\* none after it); lastKnownState is written by the step that ends the loop,
\* and by no step that posts an event.
C37_DispatchOrder ==
  [][ delivery' # delivery
      => LET D == delivery'[1]
             ev == D.events
         IN  /\ \A n \in 1..Len(ev) : Rank(ev[n].type) > 0
             /\ \A n, m \in 1..Len(ev) :
                  n < m => /\ Rank(ev[n].type) <= Rank(ev[m].type)
                           /\ Rank(ev[n].type) = Rank(ev[m].type)
                                => /\ ev[n].type = "PROVIDER_DEGRADED"
                                   /\ ev[n].payload.provider # ev[m].payload.provider
             /\ ~D.done
                  => /\ lastKnownState' = lastKnownState
                     /\ sweeps' # <<>>
                     /\ \A n \in 1..Len(ev) :
                          D.attempts[n]
                            = IF n <= sweeps'[1].idx /\ Addressed(ev[n]) THEN 1 ELSE 0
             /\ D.done
                  => /\ lastKnownState' = <<lastSweep'[1].snap>>
                     /\ sweeps' = <<>> ]_vars

\* C37 witness: a sweep produced six events, from INSTANCE_DEGRADED to the
\* PROVIDER_DEGRADED of the second provider; the first five are behind the
\* loop, the sixth is being delivered, and lastKnownState is not yet written.
C37_Witness ==
  /\ delivery # <<>>
  /\ ~delivery[1].done
  /\ Len(delivery[1].events) = 6
  /\ sweeps # <<>>
  /\ sweeps[1].idx = 6
  /\ delivery[1].attempts[1] = 1
  /\ delivery[1].attempts[3] = 0
  /\ lastKnownState = <<>>

\* C38: what a sweep does is what a monitor with any other
\* instanceDegradedScore does in the same state with the same snapshot at the
\* same time: the same events, the same two ledgers (lastKnownState is the
\* snapshot itself, and no other step reads the thresholds); from equal
\* states the two monitors so reach equal states, sweep after sweep.
C38_ScoreHasNoInfluence ==
  [][ /\ thresholds' = thresholds
      /\ Evaluated
           => LET L == lastSweep'[1]
              IN  \A o \in ScoreOverrides :
                    LET other == Evaluate(o @@ thresholds, L.snap, L.at,
                                          suppressedInstances, suppressedProviders,
                                          lastKnownState)
                    IN  /\ other.events = L.events
                        /\ other.threw = L.threw
                        /\ other.suppressedInstances = suppressedInstances'
                        /\ other.suppressedProviders = suppressedProviders' ]_vars

\* C38 witness: a monitor constructed with instanceDegradedScore 0 has
\* produced INSTANCE_DEGRADED, stored its expiry and recorded the snapshot.
C38_Witness ==
  /\ thresholds.instanceDegradedScore = 0
  /\ lastSweep # <<>>
  /\ HasType(lastSweep[1].events, "INSTANCE_DEGRADED")
  /\ MapGet(suppressedInstances, FleetDegradedKey)
       = lastSweep[1].at + InstanceSuppressionMs
  /\ lastKnownState = <<lastSweep[1].snap>>

\* C39: a call of stop() or of start() changes neither ledger store nor
\* lastKnownState, so a sweep finds what the sweeps before the restart left:
\* it produces no INSTANCE_DEGRADED while the stored expiry is not behind it,
\* and it produces FLEET_RECOVERING for a healthy snapshot when the recorded
\* one has degraded or failed instances.
C39_RestartKeepsState ==
  [][ /\ lastCall' # lastCall
           => UNCHANGED <<suppressedInstances, suppressedProviders, lastKnownState>>
      /\ Evaluated
           => LET L == lastSweep'[1]
                  entry == MapGet(suppressedInstances, FleetDegradedKey)
              IN  /\ (entry # Undefined /\ L.at <= entry)
                       => ~HasType(L.events, "INSTANCE_DEGRADED")
                  /\ (lastKnownState # <<>> /\ Unhealthy(lastKnownState[1])
                      /\ ~Unhealthy(L.snap))
                       => HasType(L.events, "FLEET_RECOVERING") ]_vars

\* C39 witness: two sweeps have run, each the initial sweep of a start();
\* stop() was called between them, after the first had ended (it cleared the
\* first timer); the first produced INSTANCE_DEGRADED, the second saw
\* degraded instances and was blocked by the first's entry.
C39_Witness ==
  /\ sweepsBegun = 2
  /\ timersArmed = 2
  /\ timers = {2}
  /\ pollTimer = 2
  /\ sweeps = <<>>
  /\ running
  /\ lastSweep # <<>>
  /\ lastSweep[1].snap.degradedInstances > 0
  /\ lastSweep[1].events = <<>>
  /\ hist.degradedBreachAt # Undefined
  /\ MapGet(suppressedInstances, FleetDegradedKey)
       = hist.degradedBreachAt + InstanceSuppressionMs

====
